---- MODULE Spec2Model ----
(***************************************************************************)
(* Authentication & authorization subsystem of selfhosted-supabase-mcp:    *)
(* JWTValidator (src/auth/jwt.ts), SessionManager (src/auth/session.ts),   *)
(* RBACManager (src/auth/rbac.ts), AuthenticationMiddleware                *)
(* (src/auth/middleware.ts).                                               *)
(*                                                                         *)
(* Time: `now' counts clock ticks of MsPerTick milliseconds since the      *)
(* SessionManager was constructed, so Date.now() is now * MsPerTick.       *)
(* Session times are kept in ticks, token times in seconds.                *)
(***************************************************************************)
EXTENDS Integers, Sequences, FiniteSets, TLC

\* ------------------------------------------------------------------ bounds
MaxTime == 3                    \* the clock stops advancing here
MaxIds == 2                     \* session ids ever generated
SessionTimeout == 2             \* config.sessionTimeout, in ticks
MaxConcurrentSessions == 1      \* config.maxConcurrentSessions
MaxAppends == 3                 \* events built by one AuditLogger
MaxCapacity == 2                \* largest maxEvents given to an AuditLogger

\* ------------------------------------------------------- program constants
MsPerTick == 300 * 1000         \* granularity of the modelled clock
CleanupPeriod == (5 * 60 * 1000) \div MsPerTick   \* setInterval period
ClockSkew == 60                 \* seconds of tolerated clock skew on iat
DefaultMaxEvents == 10000       \* default capacity of the audit log

Procs == {"p1", "p2"}           \* concurrent request handlers
Users == {"u1", "u2"}
Ids == 1..MaxIds

VARIABLES
    now,              \* wall clock, ticks
    sessions,         \* SessionManager.sessions : sessionId -> SessionData
    userSessions,     \* SessionManager.userSessions : userId -> Set object
    nextId,           \* next value produced by generateSecureSessionId
    cleanupInterval,  \* SessionManager.cleanupInterval (the timer)
    sweepCount,       \* number of times the timer callback has run
    pc,               \* position of each request handler
    local,            \* locals of each request handler
    outcome,          \* what the last step returned or threw to its caller
    config,           \* AuthConfig allow-lists
    jwt,              \* last direct JWTValidator.validateToken call
    ctx,              \* the AuthContext the policy calls are made with
    authz,            \* last call of the policy engine / validateToolAccess
    rbacRoles,        \* RBACManager.roles : role name -> permissions
    events,           \* AuditLogger.events
    enabled,          \* AuditLogger.enabled
    maxEvents,        \* AuditLogger.maxEvents
    audit             \* last call of the AuditLogger, ids and times it drew

\* the fields of the AuditLogger and the record of its last call
logVars == <<events, enabled, maxEvents, audit>>

\* the variables of the policy engine, the tool gate and the audit log
policyVars == <<ctx, authz, rbacRoles, logVars>>

vars == <<now, sessions, userSessions, nextId, cleanupInterval, sweepCount,
          pc, local, outcome, config, jwt, policyVars>>

\* ===================================================================== JWT
\* Math.floor(Date.now() / 1000)
NowSec(t) == (t * MsPerTick) \div 1000

\* A token: nseg = number of dot-separated segments (0 stands for the empty
\* string), decodable = both segments base64url-decode to JSON, and the
\* claims of the payload.  "" / 0 stand for a missing (falsy) claim.
Token(nseg, decodable, sub, aud, iss, exp, iat) ==
    [nseg |-> nseg, decodable |-> decodable, sub |-> sub, aud |-> aud,
     iss |-> iss, exp |-> exp, iat |-> iat]

Payload(tok) ==
    [sub |-> tok.sub, aud |-> tok.aud, iss |-> tok.iss, exp |-> tok.exp,
     iat |-> tok.iat]

NoPayload == [sub |-> "", aud |-> "", iss |-> "", exp |-> 0, iat |-> 0]

\* (variant: no clock skew is tolerated on iat)
validatePayloadNoSkew(payload, cfg, nowSec) ==
    IF payload.sub = "" THEN "AUTH_MISSING_SUB"
    ELSE IF payload.aud = "" THEN "AUTH_MISSING_AUD"
    ELSE IF payload.iss = "" THEN "AUTH_MISSING_ISS"
    ELSE IF payload.exp # 0 /\ payload.exp < nowSec THEN "AUTH_TOKEN_EXPIRED"
    ELSE IF payload.iat # 0 /\ payload.iat > nowSec
        THEN "AUTH_TOKEN_NOT_YET_VALID"
    ELSE IF cfg.allowedAudiences # {} /\ payload.aud \notin cfg.allowedAudiences
        THEN "AUTH_INVALID_AUDIENCE"
    ELSE IF cfg.allowedIssuers # {} /\ payload.iss \notin cfg.allowedIssuers
        THEN "AUTH_INVALID_ISSUER"
    ELSE "OK"

\* JWTValidator.validatePayload: the code of the error it throws, or "OK".
validatePayload(payload, cfg, nowSec) ==
    IF payload.sub = "" THEN "AUTH_MISSING_SUB"
    ELSE IF payload.aud = "" THEN "AUTH_MISSING_AUD"
    ELSE IF payload.iss = "" THEN "AUTH_MISSING_ISS"
    ELSE IF payload.exp # 0 /\ payload.exp < nowSec THEN "AUTH_TOKEN_EXPIRED"
    ELSE IF payload.iat # 0 /\ payload.iat > nowSec + ClockSkew
        THEN "AUTH_TOKEN_NOT_YET_VALID"
    ELSE IF cfg.allowedAudiences # {} /\ payload.aud \notin cfg.allowedAudiences
        THEN "AUTH_INVALID_AUDIENCE"
    ELSE IF cfg.allowedIssuers # {} /\ payload.iss \notin cfg.allowedIssuers
        THEN "AUTH_INVALID_ISSUER"
    ELSE "OK"

\* (variant: the catch block rethrows the error it caught)
RethrowSame(innerCode) == innerCode

\* The catch block of validateToken: every error thrown inside the try,
\* the AuthenticationError of validatePayload included, is replaced by a
\* new AuthenticationError with code AUTH_VALIDATION_FAILED.
RethrowCode(innerCode) == "AUTH_VALIDATION_FAILED"

\* JWTValidator.validateToken: [code, payload]; code "OK" means it returns.
validateToken(tok, cfg, nowSec) ==
    IF tok.nseg = 0 THEN [code |-> "AUTH_NO_TOKEN", payload |-> NoPayload]
    ELSE IF tok.nseg # 3
        THEN [code |-> "AUTH_INVALID_FORMAT", payload |-> NoPayload]
    ELSE IF ~tok.decodable
        THEN [code |-> RethrowCode("SyntaxError"), payload |-> NoPayload]
    ELSE IF validatePayload(Payload(tok), cfg, nowSec) # "OK"
        THEN [code |-> RethrowCode(validatePayload(Payload(tok), cfg, nowSec)),
              payload |-> NoPayload]
    ELSE [code |-> "OK", payload |-> Payload(tok)]


\* ==================================================================== RBAC
\* A conditions object (Record<string, unknown>) is a function from its keys
\* to their values; `undefined' (no object supplied) is NoConditions.
EmptyObject == [k \in {} |-> TRUE]

NoConditions == [given |-> FALSE, map |-> EmptyObject]

Conditions(map) == [given |-> TRUE, map |-> map]

\* a Permission without / with a conditions object
Perm(action, resource) ==
    [action |-> action, resource |-> resource, conditions |-> NoConditions]

PermIf(action, resource, map) ==
    [action |-> action, resource |-> resource, conditions |-> Conditions(map)]

\* the permission lists of the five roles of initializeSystemRoles
\* (variant: anon may read everything)
anonRoleReadsAll == <<Perm("read", "*")>>

anonRole == <<Perm("read", "public_data")>>

authenticatedRole ==
    <<Perm("read", "public_data"),
      PermIf("read", "user_data", [k \in {"ownedByUser"} |-> TRUE]),
      Perm("read", "database_stats"),
      Perm("read", "project_url")>>

serviceRole ==
    <<Perm("read", "*"), Perm("write", "auth_users"), Perm("execute", "sql"),
      Perm("read", "migrations"), Perm("write", "migrations"),
      Perm("read", "database_connections"), Perm("read", "database_stats"),
      Perm("execute", "rebuild_hooks"), Perm("read", "storage_buckets"),
      Perm("read", "storage_objects"), Perm("read", "realtime_publications")>>

\* (variant: admin may do everything except write)
adminRoleReadOnly == <<Perm("read", "*"), Perm("execute", "*")>>

adminRole == <<Perm("*", "*")>>

operatorRole ==
    <<Perm("read", "database_stats"), Perm("read", "database_connections"),
      Perm("read", "migrations"), Perm("write", "migrations"),
      PermIf("execute", "sql", [k \in {"readOnly"} |-> TRUE]),
      Perm("read", "extensions"), Perm("read", "tables"),
      Perm("execute", "generate_types")>>

\* RBACManager.roles after the constructor: role name -> permissions
initializeSystemRoles ==
    [anon |-> anonRole, authenticated |-> authenticatedRole,
     service_role |-> serviceRole, admin |-> adminRole,
     operator |-> operatorRole]

\* RBACManager.matchesPermission: the conditions are compared only when the
\* permission has a conditions object and the caller supplied one; a key
\* the caller's object lacks reads as undefined and differs from any value
matchesPermission(permission, action, resource, conditions) ==
    IF permission.action # "*" /\ permission.action # action THEN FALSE
    ELSE IF permission.resource # "*" /\ permission.resource # resource
        THEN FALSE
    ELSE IF permission.conditions.given /\ conditions.given
        THEN \A key \in DOMAIN permission.conditions.map :
                /\ key \in DOMAIN conditions.map
                /\ conditions.map[key] = permission.conditions.map[key]
    ELSE TRUE

\* RBACManager.parsePermissionString.  A permission string is given by the
\* list of its parts, permissionStr.split(':'); null is [ok |-> FALSE].
parsePermissionString(parts) ==
    IF Len(parts) # 2 THEN [ok |-> FALSE, permission |-> Perm("", "")]
    ELSE [ok |-> TRUE, permission |-> Perm(parts[1], parts[2])]

\* (variant: the gate on unauthenticated contexts is missing)
hasPermissionUngated(R, authContext, action, resource, conditions) ==
    \/ \E i \in 1..Len(authContext.roles) :
          /\ authContext.roles[i] \in DOMAIN R
          /\ \E j \in 1..Len(R[authContext.roles[i]]) :
                matchesPermission(R[authContext.roles[i]][j], action,
                                  resource, conditions)
    \/ \E i \in 1..Len(authContext.permissions) :
          /\ parsePermissionString(authContext.permissions[i]).ok
          /\ matchesPermission(
                parsePermissionString(authContext.permissions[i]).permission,
                action, resource, conditions)

\* Array.prototype.includes
Includes(seq, x) == \E i \in 1..Len(seq) : seq[i] = x

\* RBACManager.hasPermission, R being the role map
hasPermission(R, authContext, action, resource, conditions) ==
    IF ~authContext.isAuthenticated /\ ~Includes(authContext.roles, "anon")
        THEN FALSE
    ELSE \/ \E i \in 1..Len(authContext.roles) :
              /\ authContext.roles[i] \in DOMAIN R
              /\ \E j \in 1..Len(R[authContext.roles[i]]) :
                    matchesPermission(R[authContext.roles[i]][j], action,
                                      resource, conditions)
         \/ \E i \in 1..Len(authContext.permissions) :
              /\ parsePermissionString(authContext.permissions[i]).ok
              /\ matchesPermission(
                    parsePermissionString(
                        authContext.permissions[i]).permission,
                    action, resource, conditions)

\* RBACManager.enforcePermission: the code it throws, or "OK"
enforcePermission(R, authContext, action, resource, conditions) ==
    IF hasPermission(R, authContext, action, resource, conditions)
        THEN "OK" ELSE "AUTH_ACCESS_DENIED"

\* the table of getToolPermissions
toolPermissions ==
    [list_tables |-> Perm("read", "tables"),
     list_extensions |-> Perm("read", "extensions"),
     list_migrations |-> Perm("read", "migrations"),
     apply_migration |-> Perm("write", "migrations"),
     execute_sql |-> Perm("execute", "sql"),
     get_database_connections |-> Perm("read", "database_connections"),
     get_database_stats |-> Perm("read", "database_stats"),
     get_project_url |-> Perm("read", "project_url"),
     get_anon_key |-> Perm("read", "credentials"),
     get_service_key |-> Perm("read", "credentials"),
     generate_typescript_types |-> Perm("execute", "generate_types"),
     rebuild_hooks |-> Perm("execute", "rebuild_hooks"),
     verify_jwt_secret |-> Perm("read", "credentials"),
     list_auth_users |-> Perm("read", "auth_users"),
     get_auth_user |-> Perm("read", "auth_users"),
     delete_auth_user |-> Perm("write", "auth_users"),
     create_auth_user |-> Perm("write", "auth_users"),
     update_auth_user |-> Perm("write", "auth_users"),
     list_storage_buckets |-> Perm("read", "storage_buckets"),
     list_storage_objects |-> Perm("read", "storage_objects"),
     list_realtime_publications |-> Perm("read", "realtime_publications")]

\* (variant: a tool absent from the table needs read on public_data)
getToolPermissionsPublicDefault(toolName) ==
    IF toolName \in DOMAIN toolPermissions THEN toolPermissions[toolName]
    ELSE Perm("read", "public_data")

\* RBACManager.getToolPermissions
getToolPermissions(toolName) ==
    IF toolName \in DOMAIN toolPermissions THEN toolPermissions[toolName]
    ELSE Perm("execute", toolName)

\* the list built in requiresHumanApproval
humanApprovalTools == <<"delete_auth_user", "apply_migration", "execute_sql">>

\* (variant: the approval list is the one of the AuthConfig)
requiresHumanApprovalConfigured(toolName, authContext) ==
    IF Includes(authContext.roles, "admin") THEN FALSE
    ELSE toolName \in config.requireHumanApproval

\* RBACManager.requiresHumanApproval.  The RBACManager is constructed
\* without the AuthConfig and does not read its requireHumanApproval list.
requiresHumanApproval(toolName, authContext) ==
    IF Includes(authContext.roles, "admin") THEN FALSE
    ELSE Includes(humanApprovalTools, toolName)


\* ================================================== claims of a token, gate
\* The role and permission claims of a payload: role ("" if absent), roles
\* and permissions (arrays of strings; given = FALSE if absent).  Token
\* validation neither reads nor changes them, so they travel next to the
\* Token record.
Grants(role, roles, permissions) ==
    [role |-> role, roles |-> roles, permissions |-> permissions]

Absent == [given |-> FALSE, list |-> <<>>]

Array(list) == [given |-> TRUE, list |-> list]

\* [...new Set(roles)]: the first occurrence of each element, in order
RECURSIVE Dedup(_)
Dedup(seq) ==
    IF seq = <<>> THEN <<>>
    ELSE LET init == Dedup(SubSeq(seq, 1, Len(seq) - 1))
             last == seq[Len(seq)]
         IN  IF \E i \in 1..Len(init) : init[i] = last THEN init
             ELSE Append(init, last)

\* JWTValidator.extractRoles
extractRoles(grants) ==
    LET single == IF grants.role # "" THEN <<grants.role>> ELSE <<>>
        roles == IF grants.roles.given THEN single \o grants.roles.list
                 ELSE single
    IN  IF Len(roles) = 0 THEN <<"authenticated">> ELSE Dedup(roles)

\* JWTValidator.extractPermissions
extractPermissions(grants) ==
    IF grants.permissions.given THEN grants.permissions.list ELSE <<>>

\* the AuthContext assembled by authenticateToken; session id 0 stands for
\* the 'anonymous' sentinel, "" for an absent optional field
AuthContext(userId, sessionId, roles, permissions, isAuthenticated, sub) ==
    [userId |-> userId, sessionId |-> sessionId, roles |-> roles,
     permissions |-> permissions, isAuthenticated |-> isAuthenticated,
     tokenSubject |-> sub]

\* AuthenticationMiddleware.createAnonymousContext
createAnonymousContext == AuthContext("", 0, <<"anon">>, <<>>, FALSE, "")

\* A SQL text is given by the list of its words (maximal runs of word
\* characters, upper-cased; the words are separated by white space and the
\* text has none at its ends).  <<>> is the empty or missing query.
\* A pattern /\bK1\s+K2\s+/i matches when the words K1 K2 occur in a row
\* and white space, hence another word, follows.
MatchesPattern(query, keywords) ==
    \E i \in 1..Len(query) :
        /\ i + Len(keywords) - 1 < Len(query)
        /\ \A j \in 1..Len(keywords) : query[i + j - 1] = keywords[j]

\* dangerousPatterns of validateSqlExecution
dangerousPatterns ==
    << <<"DROP">>, <<"DELETE", "FROM">>, <<"TRUNCATE">>, <<"ALTER">>,
       <<"GRANT">>, <<"REVOKE">>, <<"CREATE", "USER">>, <<"DROP", "USER">> >>

isDangerous(query) ==
    \E k \in 1..Len(dangerousPatterns) :
        MatchesPattern(query, dangerousPatterns[k])

\* /^\s*SELECT\s+/i
StartsWithSelect(query) == Len(query) >= 2 /\ query[1] = "SELECT"

\* toolArgs: none supplied, or an object with its query
NoArgs == [given |-> FALSE, query |-> <<>>]

Args(query) == [given |-> TRUE, query |-> query]

\* AuthenticationMiddleware.validateSqlExecution: the code thrown, or "OK"
validateSqlExecution(authContext, toolArgs) ==
    LET query == toolArgs.query
        privileged == Includes(authContext.roles, "admin")
                        \/ Includes(authContext.roles, "service_role")
    IN  IF query = <<>> THEN "AUTH_MISSING_QUERY"
        ELSE IF isDangerous(query) /\ ~privileged THEN "AUTH_DANGEROUS_SQL"
        ELSE IF ~privileged /\ ~StartsWithSelect(query)
            THEN "AUTH_SELECT_ONLY"
        ELSE "OK"

\* AuthenticationMiddleware.validateToolAccess: the code thrown, or "OK"
validateToolAccess(R, authContext, toolName, toolArgs) ==
    LET requiredPermission == getToolPermissions(toolName)
        enforced == enforcePermission(R, authContext,
                        requiredPermission.action,
                        requiredPermission.resource,
                        requiredPermission.conditions)
    IN  IF enforced # "OK" THEN enforced
        ELSE IF requiresHumanApproval(toolName, authContext)
            THEN "AUTH_HUMAN_APPROVAL_REQUIRED"
        ELSE IF toolName = "execute_sql" /\ toolArgs.given
            THEN validateSqlExecution(authContext, toolArgs)
        ELSE "OK"


\* =============================================================== audit log
\* Array.prototype.slice(start): a negative start counts from the end, and
\* -0 is 0, so slice(-0) is the whole array
slice(array, start) ==
    LET len == Len(array)
        from == IF start < 0
                  THEN (IF len + start > 0 THEN len + start ELSE 0)
                  ELSE (IF start > len THEN len ELSE start)
    IN  SubSeq(array, from + 1, len)

\* AuditLogger.addEvent: push, then rotate
addEvent(E, N, event) ==
    LET pushed == Append(E, event)
    IN  IF Len(pushed) > N THEN slice(pushed, 0 - N) ELSE pushed

\* A detail key is the sequence of its fragments ("api" "Key" is apiKey);
\* String.prototype.toLowerCase, fragment by fragment
toLowerCase(fragment) ==
    CASE fragment = "Password" -> "password"
      [] fragment = "PASSWORD" -> "password"
      [] fragment = "Key" -> "key"
      [] fragment = "Token" -> "token"
      [] OTHER -> fragment

sensitiveKeys == <<"password", "secret", "key", "token", "credential">>

\* sensitiveKeys.some(s => key.toLowerCase().includes(s))
isSensitive(key) ==
    \E s \in 1..Len(sensitiveKeys) : \E i \in 1..Len(key) :
        toLowerCase(key[i]) = sensitiveKeys[s]

\* Values of a detail map.  text is the value as a sequence of string
\* pieces, length its String length, inner the entries of a nested map.
StringValue(text, length) ==
    [typeof |-> "string", text |-> text, length |-> length, inner |-> <<>>]

NumberValue(digits) ==
    [typeof |-> "number", text |-> <<digits>>, length |-> 0, inner |-> <<>>]

ObjectValue(entries) ==
    [typeof |-> "object", text |-> <<>>, length |-> 0, inner |-> entries]

Entry(key, value) == [key |-> key, value |-> value]

\* the template string `[REDACTED:${value.length}chars]'
RedactionMarker(length) ==
    StringValue(<<"[REDACTED:", ToString(length), "chars]">>,
                16 + (IF length < 10 THEN 1 ELSE 2))

\* an optional details argument: undefined, or its Object.entries
NoDetails == [given |-> FALSE, entries |-> <<>>]

Details(entries) == [given |-> TRUE, entries |-> entries]

\* AuditLogger.sanitizeDetails
sanitizeDetails(details) ==
    IF ~details.given THEN NoDetails
    ELSE Details([i \in 1..Len(details.entries) |->
            LET key == details.entries[i].key
                value == details.entries[i].value
            IN  IF isSensitive(key) /\ value.typeof = "string"
                  THEN Entry(key, RedactionMarker(value.length))
                  ELSE Entry(key, value)])

\* an optional AuthContext argument
NoContext == [given |-> FALSE, userId |-> "", sessionId |-> -1]

Context(authContext) ==
    [given |-> TRUE, userId |-> authContext.userId,
     sessionId |-> authContext.sessionId]

\* The AuditEvent literal built by the four log functions.  eventId is the
\* pair of Date.now() and the rank of the random suffix among those drawn;
\* "" and -1 stand for an undefined userId and sessionId, 0 for the
\* sessionId 'anonymous'.
AuditEvent(seq, timestamp, userId, sessionId, action, resource, outcome0, details) ==
    [eventId |-> <<timestamp * MsPerTick, seq>>, timestamp |-> timestamp,
     userId |-> userId, sessionId |-> sessionId, action |-> action,
     resource |-> resource, outcome |-> outcome0,
     details |-> sanitizeDetails(details), ipAddress |-> "",
     userAgent |-> ""]

\* the AuditLogger as the record of its three fields
Logger(E, flag, N) == [events |-> E, enabled |-> flag, maxEvents |-> N]

\* `if (!this.enabled) return;' followed by addEvent, common to the four
\* log functions
Logged(L, event) ==
    IF ~L.enabled THEN L
    ELSE [L EXCEPT !.events = addEvent(@, L.maxEvents, event)]

\* AuditLogger.logAuthEvent
logAuthEvent(L, seq, timestamp, action, outcome0, authContext, details) ==
    Logged(L, AuditEvent(seq, timestamp, authContext.userId,
                         authContext.sessionId, action, "authentication",
                         outcome0, details))

\* AuditLogger.logAuthzEvent
logAuthzEvent(L, seq, timestamp, action, resource, outcome0, authContext, details) ==
    Logged(L, AuditEvent(seq, timestamp, authContext.userId,
                         authContext.sessionId, action, resource, outcome0,
                         details))

\* AuditLogger.logToolEvent
logToolEvent(L, seq, timestamp, toolName, outcome0, authContext, details) ==
    Logged(L, AuditEvent(seq, timestamp, authContext.userId,
                         authContext.sessionId, "tool_execution", toolName,
                         outcome0, details))

\* AuditLogger.logSessionEvent
logSessionEvent(L, seq, timestamp, action, outcome0, sessionId, userId, details) ==
    Logged(L, AuditEvent(seq, timestamp, userId, sessionId, action, "session",
                         outcome0, details))

\* (variant: switching the trail drops what it recorded)
setEnabledClearsLog(L, flag) == [L EXCEPT !.enabled = flag, !.events = <<>>]

\* AuditLogger.setEnabled
setEnabled(L, flag) == [L EXCEPT !.enabled = flag]

\* AuditLogger.clearLog
clearLog(L) == [L EXCEPT !.events = <<>>]

\* ------------------------------------------------------------------ export
\* The exported string as the sequence of its pieces.
RECURSIVE Join(_, _)
Join(rows, separator) ==
    IF rows = <<>> THEN <<>>
    ELSE IF Len(rows) = 1 THEN rows[1]
    ELSE rows[1] \o <<separator>> \o Join(Tail(rows), separator)

Quoted(text) == <<"\"">> \o text \o <<"\"">>

\* JSON.stringify of a string or a number
JsonScalar(value) ==
    IF value.typeof = "string" THEN Quoted(value.text) ELSE value.text

\* JSON.stringify of a detail value: a scalar, or a map of scalars
JsonValue(value) ==
    IF value.typeof = "object"
      THEN <<"{">>
           \o Join([i \in 1..Len(value.inner) |->
                      Quoted(value.inner[i].key) \o <<":">>
                      \o JsonScalar(value.inner[i].value)], ",")
           \o <<"}">>
      ELSE JsonScalar(value)

\* Date.prototype.toISOString
toISOString(timestamp) == <<"T", ToString(timestamp * MsPerTick)>>

eventIdString(eventId) ==
    <<"audit_", ToString(eventId[1]), "_", ToString(eventId[2])>>

sessionIdString(sessionId) ==
    IF sessionId = -1 THEN <<"">>
    ELSE IF sessionId = 0 THEN <<"anonymous">>
    ELSE <<"s", ToString(sessionId)>>

Member(name, rendered) == <<"\"", name, "\"", ":">> \o rendered

\* JSON.stringify of one event: members whose value is undefined are left out
JsonEvent(event) ==
    <<"{">>
    \o Join(<<Member("eventId", Quoted(eventIdString(event.eventId))),
              Member("timestamp", Quoted(toISOString(event.timestamp)))>>
            \o (IF event.userId = "" THEN <<>>
                ELSE <<Member("userId", Quoted(<<event.userId>>))>>)
            \o (IF event.sessionId = -1 THEN <<>>
                ELSE <<Member("sessionId",
                              Quoted(sessionIdString(event.sessionId)))>>)
            \o <<Member("action", Quoted(<<event.action>>)),
                 Member("resource", Quoted(<<event.resource>>)),
                 Member("outcome", Quoted(<<event.outcome>>))>>
            \o (IF ~event.details.given THEN <<>>
                ELSE <<Member("details",
                         <<"{">>
                         \o Join([i \in 1..Len(event.details.entries) |->
                                    Quoted(event.details.entries[i].key)
                                    \o <<":">>
                                    \o JsonValue(event.details.entries[i].value)],
                                 ",")
                         \o <<"}">>)>>),
            ",")
    \o <<"}">>

\* one row of the CSV export: nine columns, `|| ""' for the optional ones
CsvRow(event) ==
    Join(<<eventIdString(event.eventId), toISOString(event.timestamp),
           <<event.userId>>, sessionIdString(event.sessionId),
           <<event.action>>, <<event.resource>>, <<event.outcome>>,
           <<event.ipAddress>>, <<event.userAgent>>>>, ",")

CsvHeaders ==
    Join(<< <<"eventId">>, <<"timestamp">>, <<"userId">>, <<"sessionId">>,
            <<"action">>, <<"resource">>, <<"outcome">>, <<"ipAddress">>,
            <<"userAgent">> >>, ",")

\* AuditLogger.exportLog: [code, text]; code "OK" means it returns text
exportLog(E, format) ==
    IF format = "json"
      THEN [code |-> "OK",
            text |-> <<"[">>
                     \o Join([i \in 1..Len(E) |-> JsonEvent(E[i])], ",")
                     \o <<"]">>]
    ELSE IF format = "csv"
      THEN [code |-> "OK",
            text |-> Join(<<CsvHeaders>> \o [i \in 1..Len(E) |-> CsvRow(E[i])],
                          "\n")]
    ELSE [code |-> "UNSUPPORTED_FORMAT", text |-> <<>>]

\* no call of the AuditLogger made yet; seq counts the event ids drawn
NoAuditCall ==
    [op |-> "", seq |-> 0, code |-> "", details |-> NoDetails,
     exported |-> <<>>]

\* ================================================================ sessions
MapDel(f, k) == [x \in (DOMAIN f) \ {k} |-> f[x]]

MapPut(f, k, v) == [x \in (DOMAIN f) \cup {k} |-> IF x = k THEN v ELSE f[x]]

SeqRemove(seq, x) == SelectSeq(seq, LAMBDA y : y # x)

SeqToSet(seq) == {seq[i] : i \in 1..Len(seq)}

\* SessionData built by createSession (lines 45-54)
NewSession(userId, t) ==
    [userId |-> userId, createdAt |-> t, lastAccessedAt |-> t,
     expiresAt |-> t + SessionTimeout, isActive |-> TRUE]

\* (variant: a session is dead from the instant of its expiry)
IsDeadInclusive(session, t) == session.expiresAt <= t \/ ~session.isActive

\* the test `session.expiresAt < now || !session.isActive'
IsDead(session, t) == session.expiresAt < t \/ ~session.isActive

\* (variant: the limit test lets one more session in)
OverLimitOffByOne(U, userId) ==
    LET size == IF userId \in DOMAIN U THEN Len(U[userId].ids) ELSE 0
    IN  size > MaxConcurrentSessions

\* the limit test of createSession (lines 33-34)
OverLimit(U, userId) ==
    LET size == IF userId \in DOMAIN U THEN Len(U[userId].ids) ELSE 0
    IN  size >= MaxConcurrentSessions

\* the insertion of createSession (lines 56-62); the Set object created at
\* line 60 is identified by the session id whose insertion created it.
InsertSession(S, U, sid, userId, t) ==
    [s |-> MapPut(S, sid, NewSession(userId, t)),
     u |-> IF userId \in DOMAIN U
             THEN [U EXCEPT ![userId].ids = Append(@, sid)]
             ELSE MapPut(U, userId, [obj |-> sid, ids |-> <<sid>>])]

\* (variant: the session leaves the map and stays in the per-user index)
destroySessionKeepsIndex(S, U, sid) == [s |-> MapDel(S, sid), u |-> U]

\* SessionManager.destroySession
destroySession(S, U, sid) ==
    [s |-> MapDel(S, sid),
     u |-> IF sid \in DOMAIN S /\ S[sid].userId \in DOMAIN U
             THEN LET uid == S[sid].userId
                      rest == SeqRemove(U[uid].ids, sid)
                  IN  IF Len(rest) = 0 THEN MapDel(U, uid)
                      ELSE [U EXCEPT ![uid].ids = rest]
             ELSE U]

\* (variant: a successful validation does not move the expiry)
validateSessionNoSlide(S, U, sid, t) ==
    IF sid \notin DOMAIN S THEN [s |-> S, u |-> U, ret |-> 0]
    ELSE IF IsDead(S[sid], t)
        THEN [s |-> destroySession(S, U, sid).s,
              u |-> destroySession(S, U, sid).u, ret |-> 0]
    ELSE [s |-> [S EXCEPT ![sid].lastAccessedAt = t], u |-> U, ret |-> sid]

\* SessionManager.validateSession: ret = 0 stands for null
validateSession(S, U, sid, t) ==
    IF sid \notin DOMAIN S THEN [s |-> S, u |-> U, ret |-> 0]
    ELSE IF IsDead(S[sid], t)
        THEN [s |-> destroySession(S, U, sid).s,
              u |-> destroySession(S, U, sid).u, ret |-> 0]
    ELSE [s |-> [S EXCEPT ![sid].lastAccessedAt = t,
                          ![sid].expiresAt = t + SessionTimeout],
          u |-> U, ret |-> sid]

\* (variant: the user's index entry goes and the sessions stay in the map)
destroyUserSessionsKeepsSessions(S, U, userId) ==
    [s |-> S, u |-> MapDel(U, userId)]

\* SessionManager.destroyUserSessions
destroyUserSessions(S, U, userId) ==
    IF userId \in DOMAIN U
        THEN [s |-> [x \in (DOMAIN S) \ SeqToSet(U[userId].ids) |-> S[x]],
              u |-> MapDel(U, userId)]
        ELSE [s |-> S, u |-> U]

\* SessionManager.extendSession: ret is the boolean it returns
extendSession(S, sid, t) ==
    IF sid \notin DOMAIN S \/ ~S[sid].isActive THEN [s |-> S, ret |-> FALSE]
    ELSE [s |-> [S EXCEPT ![sid].expiresAt = t + SessionTimeout,
                          ![sid].lastAccessedAt = t],
          ret |-> TRUE]

\* (variant: the sweep also collects the sessions expiring right now)
ExpiredSessionIdsInclusive(S, t) ==
    {sid \in DOMAIN S : S[sid].expiresAt <= t \/ ~S[sid].isActive}

\* the ids collected by the first loop of cleanupExpiredSessions
ExpiredSessionIds(S, t) == {sid \in DOMAIN S : IsDead(S[sid], t)}

\* the second loop of cleanupExpiredSessions: destroySession on each id
RECURSIVE DestroyEach(_, _, _)
DestroyEach(S, U, ids) ==
    IF ids = {} THEN [s |-> S, u |-> U]
    ELSE LET sid == CHOOSE x \in ids : \A y \in ids : x <= y
             d == destroySession(S, U, sid)
         IN  DestroyEach(d.s, d.u, ids \ {sid})

cleanupExpiredSessions(S, U, t) == DestroyEach(S, U, ExpiredSessionIds(S, t))


\* ======================================================== request handlers
\* pc: "idle"      no call in progress
\*     "cs_await"  in createSession, at `await generateSecureSessionId()'
\*     "cs_failed" in createOrValidateSession, awaiting the rejected promise
\*                 of createSession before the catch block runs
\*     "gus"       in getUserSessions, at `await this.validateSession(..)'
\*     "auth_ret"  createOrValidateSession has settled; authenticateToken
\*                 has not resumed yet
Busy == {"cs_await", "cs_failed", "gus", "auth_ret"}

\* locals of a call, and its result.  solo, expect and was are history
\* fields: solo is TRUE as long as no other step was taken while the call
\* was suspended; was tells what the call met ("capped": createSession
\* rejected it; "unknown", "dead", "live": the session of the id it was
\* given); expect is the user's oldest live session when createSession
\* rejected the call.  n is the number cleanupExpiredSessions logs.
Blank ==
    [op |-> "", user |-> "", sid |-> 0, obj |-> 0, last |-> 0, found |-> <<>>,
     status |-> "", solo |-> TRUE, expect |-> 0, was |-> "", n |-> 0]

Disturbed(q) ==
    IF pc[q] \in Busy THEN [local[q] EXCEPT !.solo = FALSE] ELSE local[q]

\* the locals after a step of p that leaves p with `rec'
StepOf(p, rec) == [q \in Procs |-> IF q = p THEN rec ELSE Disturbed(q)]

\* the locals after a step of no handler (clock, timer, shutdown)
StepOfNone == [q \in Procs |-> Disturbed(q)]

\* `outcome' holds what the last step returned or threw until its caller
\* has received it; the next step is taken after that
Quiet == outcome.op = ""

WasOf(S, sid, t) ==
    IF sid \notin DOMAIN S THEN "unknown"
    ELSE IF IsDead(S[sid], t) THEN "dead" ELSE "live"

\* a call of `op' settles with `status' ("ok", "none" for null / false, or
\* an error code) and session id `sid'
Settled(op, status, sid, rec) ==
    [rec EXCEPT !.op = op, !.status = status, !.sid = sid]

\* the user's first session, in Set iteration order, that validateSession
\* would return at time t; 0 if there is none
OldestValid(S, U, userId, t) ==
    IF userId \notin DOMAIN U THEN 0
    ELSE LET ids == U[userId].ids
             live == {i \in 1..Len(ids) :
                        ids[i] \in DOMAIN S /\ ~IsDead(S[ids[i]], t)}
         IN  IF live = {} THEN 0
             ELSE ids[CHOOSE i \in live : \A j \in live : i <= j]

\* ids still to be generated are enough for every suspended createSession
IdBudget == nextId + Cardinality({q \in Procs : pc[q] = "cs_await"}) <= MaxIds

\* SessionManager.createSession up to its first await (lines 33-41)
CreateSessionCall(p, userId) ==
    /\ Quiet
    /\ pc[p] = "idle"
    /\ IF OverLimit(userSessions, userId)
         THEN /\ pc' = pc
              /\ local' = StepOf(p, Blank)
              /\ outcome' = Settled("createSession", "SESSION_LIMIT_EXCEEDED",
                                    0, [Blank EXCEPT !.user = userId])
         ELSE /\ IdBudget
              /\ pc' = [pc EXCEPT ![p] = "cs_await"]
              /\ local' = StepOf(p, [Blank EXCEPT !.op = "createSession",
                                                  !.user = userId])
              /\ outcome' = Blank
    /\ UNCHANGED <<now, sessions, userSessions, nextId, cleanupInterval,
                   sweepCount, config, jwt, policyVars>>

\* SessionManager.createSession after the await (lines 42-64).  A call made
\* through createOrValidateSession leaves the new id with authenticateToken.
CreateSessionResume(p) ==
    /\ Quiet
    /\ pc[p] = "cs_await"
    /\ LET ins == InsertSession(sessions, userSessions, nextId,
                                local[p].user, now)
       IN  /\ sessions' = ins.s
           /\ userSessions' = ins.u
    /\ nextId' = nextId + 1
    /\ outcome' = Settled("createSession", "ok", nextId, local[p])
    /\ IF local[p].op = "authenticate"
         THEN /\ pc' = [pc EXCEPT ![p] = "auth_ret"]
              /\ local' = StepOf(p, Settled("authenticate", "ok", nextId,
                                            local[p]))
         ELSE /\ pc' = [pc EXCEPT ![p] = "idle"]
              /\ local' = StepOf(p, Blank)
    /\ UNCHANGED <<now, cleanupInterval, sweepCount, config, jwt, policyVars>>

\* ---------------------------------------------------------- getUserSessions
\* The for-of loop of getUserSessions iterates the live Set object it read
\* at line 126.  Ids are generated in increasing order and a Set iterates in
\* insertion order, so the entries not yet visited are those above the last
\* one visited.  Once that Set object is no longer the one held by
\* userSessions (deleted when it became empty, by destroyUserSessions or by
\* destroy) every id it may still hold is absent from `sessions', each
\* remaining validateSession returns null without effect, and the loop is
\* over as far as the state is concerned.
Remaining(U, rec) ==
    IF rec.user \in DOMAIN U /\ U[rec.user].obj = rec.obj
        THEN SelectSeq(U[rec.user].ids, LAMBDA x : x > rec.last)
        ELSE <<>>

\* one iteration of the loop (lines 132-137), up to the await
GusIterate(p, rec) ==
    LET sid == Head(Remaining(userSessions, rec))
        v == validateSession(sessions, userSessions, sid, now)
    IN  /\ sessions' = v.s
        /\ userSessions' = v.u
        /\ pc' = [pc EXCEPT ![p] = "gus"]
        /\ local' = StepOf(p, [rec EXCEPT !.last = sid,
                                 !.found = IF v.ret # 0 THEN Append(@, sid)
                                           ELSE @])
        /\ outcome' = Blank

\* (variant: the newest live session is reused)
ReusedNewest(found) == found[Len(found)]

\* the session createOrValidateSession reuses (line 183)
ReusedSession(found) == found[1]

\* getUserSessions returns the list to createOrValidateSession, which
\* returns the first session's id or rethrows the error of createSession
\* (lines 182-185)
GusFinish(p, rec) ==
    /\ pc' = [pc EXCEPT ![p] = "auth_ret"]
    /\ local' = StepOf(p,
          IF Len(rec.found) > 0
            THEN Settled(rec.op, "ok", ReusedSession(rec.found), rec)
            ELSE Settled(rec.op, "SESSION_LIMIT_EXCEEDED", 0, rec))
    /\ outcome' = Blank
    /\ UNCHANGED <<sessions, userSessions>>

\* getUserSessions from its first line to the first await, or to its return
GusBegin(p, rec) ==
    IF rec.user \notin DOMAIN userSessions
        THEN GusFinish(p, rec)
        ELSE GusIterate(p, [rec EXCEPT !.obj = userSessions[rec.user].obj,
                                       !.last = 0, !.found = <<>>])

\* the loop resumes after `await this.validateSession(sessionId)'
GetUserSessionsResume(p) ==
    /\ Quiet
    /\ pc[p] = "gus"
    /\ IF Remaining(userSessions, local[p]) # <<>>
         THEN GusIterate(p, local[p])
         ELSE GusFinish(p, local[p])
    /\ UNCHANGED <<now, nextId, cleanupInterval, sweepCount,
                   config, jwt, policyVars>>

\* ------------------------------------------------------------- authenticate
GoodToken(userId) ==
    Token(3, TRUE, userId, "svc", "issuer", NowSec(MaxTime) + 1, 0)

\* tokens presented to authenticateToken: a good one per user, one without
\* subject, one that expires after the first tick, the empty string, one
\* with two segments, one that does not decode
AuthTokens ==
    {GoodToken(u) : u \in Users}
        \cup {Token(3, TRUE, "", "svc", "issuer", 0, 0),
              Token(3, TRUE, "u1", "svc", "issuer", NowSec(1), 0),
              Token(0, TRUE, "u1", "svc", "issuer", 0, 0),
              Token(2, TRUE, "u1", "svc", "issuer", 0, 0),
              Token(3, FALSE, "u1", "svc", "issuer", 0, 0)}

\* (variant: the catch block throws an error of its own)
RethrownWrapped(code) == "AUTH_FAILED"

\* the catch block of authenticateToken (lines 62-65): `throw error'
Rethrown(code) == code

\* authenticateToken (lines 36-45) and createOrValidateSession (171-177) up
\* to the first await that follows a read of the session store.  Token
\* validation reads no shared state.
AuthenticateCall(p, tok) ==
    /\ Quiet
    /\ pc[p] = "idle"
    /\ LET r == validateToken(tok, config, NowSec(now))
           userId == r.payload.sub
       IN  IF r.code # "OK"
             THEN /\ pc' = pc
                  /\ local' = StepOf(p, Blank)
                  /\ outcome' = Settled("authenticate", Rethrown(r.code), 0,
                                        Blank)
           ELSE IF OverLimit(userSessions, userId)
             THEN /\ pc' = [pc EXCEPT ![p] = "cs_failed"]
                  /\ local' = StepOf(p,
                        [Blank EXCEPT !.op = "authenticate", !.user = userId,
                           !.was = "capped",
                           !.expect = OldestValid(sessions, userSessions,
                                                  userId, now)])
                  /\ outcome' = Settled("createSession",
                                        "SESSION_LIMIT_EXCEEDED", 0,
                                        [Blank EXCEPT !.user = userId])
           ELSE /\ IdBudget
                /\ pc' = [pc EXCEPT ![p] = "cs_await"]
                /\ local' = StepOf(p, [Blank EXCEPT !.op = "authenticate",
                                                    !.user = userId])
                /\ outcome' = Blank
    /\ UNCHANGED <<now, sessions, userSessions, nextId, cleanupInterval,
                   sweepCount, config, jwt, policyVars>>

\* the catch block of createOrValidateSession (lines 179-186)
AuthenticateFallback(p) ==
    /\ Quiet
    /\ pc[p] = "cs_failed"
    /\ GusBegin(p, local[p])
    /\ UNCHANGED <<now, nextId, cleanupInterval, sweepCount,
                   config, jwt, policyVars>>

\* what the caller of authenticateToken sees of a settled call
Returned(rec) ==
    [Blank EXCEPT !.op = rec.op, !.status = rec.status, !.sid = rec.sid,
                  !.user = rec.user, !.solo = rec.solo, !.expect = rec.expect,
                  !.was = rec.was]

\* authenticateToken resumes (lines 45-65): it returns the context built
\* around the session id, or rethrows
AuthenticateReturn(p) ==
    /\ Quiet
    /\ pc[p] = "auth_ret"
    /\ pc' = [pc EXCEPT ![p] = "idle"]
    /\ local' = StepOf(p, Blank)
    /\ outcome' = Returned(local[p])
    /\ UNCHANGED <<now, sessions, userSessions, nextId, cleanupInterval,
                   sweepCount, config, jwt, policyVars>>

\* ------------------------------------------------- calls without suspension
\* (each is an async function whose body runs to its end when called)
ValidateSessionCall(sid) ==
    /\ Quiet
    /\ LET v == validateSession(sessions, userSessions, sid, now)
       IN  /\ sessions' = v.s
           /\ userSessions' = v.u
           /\ outcome' = Settled("validateSession",
                                 IF v.ret = 0 THEN "none" ELSE "ok", sid,
                                 [Blank EXCEPT !.was = WasOf(sessions, sid, now)])
    /\ local' = StepOfNone
    /\ UNCHANGED <<now, nextId, cleanupInterval, sweepCount, pc,
                   config, jwt, policyVars>>

DestroySessionCall(sid) ==
    /\ Quiet
    /\ LET d == destroySession(sessions, userSessions, sid)
       IN  /\ sessions' = d.s
           /\ userSessions' = d.u
    /\ outcome' = Settled("destroySession", "ok", sid,
                          [Blank EXCEPT !.was = WasOf(sessions, sid, now)])
    /\ local' = StepOfNone
    /\ UNCHANGED <<now, nextId, cleanupInterval, sweepCount, pc,
                   config, jwt, policyVars>>

DestroyUserSessionsCall(userId) ==
    /\ Quiet
    /\ LET d == destroyUserSessions(sessions, userSessions, userId)
       IN  /\ sessions' = d.s
           /\ userSessions' = d.u
    /\ outcome' = Settled("destroyUserSessions", "ok", 0,
                          [Blank EXCEPT !.user = userId])
    /\ local' = StepOfNone
    /\ UNCHANGED <<now, nextId, cleanupInterval, sweepCount, pc,
                   config, jwt, policyVars>>

ExtendSessionCall(sid) ==
    /\ Quiet
    /\ LET e == extendSession(sessions, sid, now)
       IN  /\ sessions' = e.s
           /\ outcome' = Settled("extendSession",
                                 IF e.ret THEN "ok" ELSE "none", sid,
                                 [Blank EXCEPT !.was = WasOf(sessions, sid, now)])
    /\ local' = StepOfNone
    /\ UNCHANGED <<now, userSessions, nextId, cleanupInterval, sweepCount, pc,
                   config, jwt, policyVars>>

\* the caller of the call that just settled receives its result
Deliver ==
    /\ ~Quiet
    /\ outcome' = Blank
    /\ UNCHANGED <<now, sessions, userSessions, nextId, cleanupInterval,
                   sweepCount, pc, local, config, jwt, policyVars>>

\* ------------------------------------------------------------ clock, timer
\* the Timeout object of setInterval(cb, 5 * 60 * 1000): armed or cleared,
\* and the tick at which it is next due
Armed(due) == [active |-> TRUE, due |-> due]

\* what a run of the interval callback leaves in the timer: setInterval
\* re-arms it one period later
Rearm(timer) == [timer EXCEPT !.due = @ + CleanupPeriod]

\* (variant: the timer is left running)
StillArmed(timer) == timer

\* clearInterval
Cleared(timer) == [timer EXCEPT !.active = FALSE]

\* a tick passes; a timer that is due runs before the next tick
Tick ==
    /\ Quiet
    /\ now < MaxTime
    /\ ~(cleanupInterval.active /\ cleanupInterval.due = now)
    /\ now' = now + 1
    /\ local' = StepOfNone
    /\ outcome' = Blank
    /\ UNCHANGED <<sessions, userSessions, nextId, cleanupInterval,
                   sweepCount, pc, config, jwt, policyVars>>

\* the interval callback of startCleanupTimer: cleanupExpiredSessions
Sweep ==
    /\ Quiet
    /\ cleanupInterval.active
    /\ cleanupInterval.due = now
    /\ LET c == cleanupExpiredSessions(sessions, userSessions, now)
       IN  /\ sessions' = c.s
           /\ userSessions' = c.u
    /\ cleanupInterval' = Rearm(cleanupInterval)
    /\ sweepCount' = sweepCount + 1
    /\ local' = StepOfNone
    /\ outcome' = Settled("sweep", "ok", 0,
          [Blank EXCEPT !.n = Cardinality(ExpiredSessionIds(sessions, now))])
    /\ UNCHANGED <<now, nextId, pc, config, jwt, policyVars>>

\* SessionManager.destroy, called by AuthenticationMiddleware.destroy
Shutdown ==
    /\ Quiet
    /\ cleanupInterval' = Cleared(cleanupInterval)
    /\ sessions' = <<>>
    /\ userSessions' = <<>>
    /\ local' = StepOfNone
    /\ outcome' = Settled("destroy", "ok", 0, Blank)
    /\ UNCHANGED <<now, nextId, sweepCount, pc, config, jwt, policyVars>>

\* ------------------------------------------------------------ specification
NoCall == [token |-> Token(0, FALSE, "", "", "", 0, 0), code |-> "",
           payload |-> NoPayload]

\* no call of the policy engine or of the gate made yet
\* new AuditLogger(): the defaults of the constructor (lines 11-18)
AuditLoggerDefault ==
    /\ events = <<>>
    /\ enabled = TRUE
    /\ maxEvents = DefaultMaxEvents
    /\ audit = NoAuditCall

NoPolicyCall ==
    [op |-> "", action |-> "", resource |-> "", conditions |-> NoConditions,
     toolName |-> "", toolArgs |-> NoArgs, code |-> "", granted |-> FALSE]

Init ==
    /\ now = 0
    /\ sessions = <<>>
    /\ userSessions = <<>>
    /\ nextId = 1
    /\ cleanupInterval = Armed(CleanupPeriod)
    /\ sweepCount = 0
    /\ pc = [p \in Procs |-> "idle"]
    /\ local = [p \in Procs |-> Blank]
    /\ outcome = Blank
    /\ config = [allowedAudiences |-> {"svc"}, allowedIssuers |-> {"issuer"},
                 requireHumanApproval |-> {"delete_auth_user"}]
    /\ jwt = NoCall
    /\ ctx = createAnonymousContext
    /\ authz = NoPolicyCall
    /\ rbacRoles = initializeSystemRoles
    /\ AuditLoggerDefault

\* session ids a caller may present: every id issued so far, whether its
\* session is still in the map or not
CallerIds == 1..(nextId - 1)

Next ==
    \/ \E p \in Procs, u \in Users : CreateSessionCall(p, u)
    \/ \E p \in Procs : CreateSessionResume(p)
    \/ \E p \in Procs, tok \in AuthTokens : AuthenticateCall(p, tok)
    \/ \E p \in Procs : AuthenticateFallback(p)
    \/ \E p \in Procs : AuthenticateReturn(p)
    \/ \E p \in Procs : GetUserSessionsResume(p)
    \/ \E sid \in CallerIds : ValidateSessionCall(sid)
    \/ \E sid \in CallerIds : DestroySessionCall(sid)
    \/ \E u \in Users : DestroyUserSessionsCall(u)
    \/ \E sid \in CallerIds : ExtendSessionCall(sid)
    \/ Deliver
    \/ Tick
    \/ Sweep
    \/ Shutdown

Spec == Init /\ [][Next]_vars

\* ------------------------------------------- specification of the validator
\* validateToken as a function of the token, the allow-lists and the clock:
\* the allow-lists and the time are drawn at the start, every call presents
\* one token of JwtTokens.
JwtConfigs ==
    [allowedAudiences : {{}, {"svc"}}, allowedIssuers : {{}, {"issuer"}},
     requireHumanApproval : {{}}]

JwtTimes == 1..MaxTime

\* claims around the boundaries of every check, at clock t
JwtClaimTokens(t) ==
    {Token(3, TRUE, sub, aud, iss, exp, iat) :
        sub \in {"", "u1"}, aud \in {"", "svc", "other"},
        iss \in {"", "issuer", "evil"},
        exp \in {0, NowSec(t) - 1, NowSec(t), NowSec(t) + 1},
        iat \in {0, NowSec(t) + ClockSkew, NowSec(t) + ClockSkew + 1}}

\* the empty string, wrong segment counts, undecodable segments
JwtMalformedTokens ==
    {Token(n, d, "u1", "svc", "issuer", 0, 0) :
        n \in {0, 1, 2, 4}, d \in {TRUE}}
        \cup {Token(3, FALSE, "u1", "svc", "issuer", 0, 0)}

JwtTokens(t) == JwtClaimTokens(t) \cup JwtMalformedTokens

ValidateTokenCall(tok) ==
    /\ LET r == validateToken(tok, config, NowSec(now))
       IN  jwt' = [token |-> tok, code |-> r.code, payload |-> r.payload]
    /\ UNCHANGED <<now, sessions, userSessions, nextId, cleanupInterval,
                   sweepCount, pc, local, outcome, config, policyVars>>

InitJwt ==
    /\ now \in JwtTimes
    /\ sessions = <<>>
    /\ userSessions = <<>>
    /\ nextId = 1
    /\ cleanupInterval = Armed(CleanupPeriod)
    /\ sweepCount = 0
    /\ pc = [p \in Procs |-> "idle"]
    /\ local = [p \in Procs |-> Blank]
    /\ outcome = Blank
    /\ config \in JwtConfigs
    /\ jwt = NoCall
    /\ ctx = createAnonymousContext
    /\ authz = NoPolicyCall
    /\ rbacRoles = initializeSystemRoles
    /\ AuditLoggerDefault

NextJwt == \E tok \in JwtTokens(now) : ValidateTokenCall(tok)

SpecJwt == InitJwt /\ [][NextJwt]_vars

Limit == "SESSION_LIMIT_EXCEEDED"

\* ------------------------------ specification of the policy engine and gate
\* One caller at a time: the context it holds (handed in from outside, from
\* createAnonymousContext or from authenticateToken), the approval list of
\* the AuthConfig, and the calls hasPermission, requiresHumanApproval,
\* validateToolAccess and authenticateToken, each run to its end.
RoleLists ==
    {<<>>, <<"anon">>, <<"authenticated">>, <<"service_role">>, <<"admin">>,
     <<"operator">>, <<"ghost">>, <<"anon", "admin">>,
     <<"authenticated", "operator">>, <<"operator", "admin">>,
     <<"service_role", "authenticated">>}

\* explicit permission strings, each given by its parts
PermissionLists ==
    {<<>>, << <<"*", "*">> >>, << <<"write", "auth_users">> >>,
     << <<"execute", "sql">> >>, << <<"read">> >>,
     << <<"*", "*", "*">>, <<"read", "credentials">> >>}

Contexts ==
    {AuthContext("u9", 9, roles, permissions, isAuthenticated, "") :
        roles \in RoleLists, permissions \in PermissionLists,
        isAuthenticated \in BOOLEAN}

ApprovalLists ==
    {{}, {"list_tables"}, {"delete_auth_user", "apply_migration", "execute_sql"}}

PolicyActions == {"read", "write", "execute", "delete"}

PolicyResources ==
    {"public_data", "user_data", "sql", "auth_users", "migrations",
     "credentials", "nothing"}

PolicyConditions ==
    {NoConditions, Conditions(EmptyObject),
     Conditions([k \in {"readOnly"} |-> TRUE]),
     Conditions([k \in {"readOnly"} |-> FALSE]),
     Conditions([k \in {"ownedByUser", "readOnly"} |-> TRUE])}

\* every tool of the permission table and two names absent from it
ToolNames == (DOMAIN toolPermissions) \cup {"unknown_tool", "public_data"}

Queries ==
    {<<>>, <<"SELECT", "*", "FROM", "T">>, <<"DROP", "TABLE", "T">>,
     <<"SELECT", "1", "DROP", "TABLE", "T">>, <<"UPDATE", "T", "SET", "X">>,
     <<"DELETE", "FROM", "T">>, <<"DROP">>}

ToolArgsOf(toolName) ==
    IF toolName = "execute_sql" THEN {NoArgs} \cup {Args(q) : q \in Queries}
    ELSE {NoArgs}

GrantsOfTokens ==
    {Grants(role, roles, permissions) :
        role \in {"", "operator"},
        roles \in {Absent, Array(<<>>), Array(<<"operator">>),
                   Array(<<"admin", "operator", "admin">>)},
        permissions \in {Absent, Array(<< <<"read", "credentials">> >>)}}

AuthzTokens ==
    {GoodToken("u1"), Token(3, TRUE, "", "svc", "issuer", 0, 0),
     Token(0, TRUE, "u1", "svc", "issuer", 0, 0)}

\* `authz' holds the last call and its result until the caller has
\* received it; the next call is made after that
PolicyQuiet == authz.op = ""

HasPermissionCall(action, resource, conditions) ==
    /\ PolicyQuiet
    /\ authz' = [NoPolicyCall EXCEPT
                   !.op = "hasPermission", !.action = action,
                   !.resource = resource, !.conditions = conditions,
                   !.granted = hasPermission(rbacRoles, ctx,
                                             action, resource, conditions)]
    /\ UNCHANGED <<now, sessions, userSessions, nextId, cleanupInterval,
                   sweepCount, pc, local, outcome, config, jwt, ctx,
                   rbacRoles, logVars>>

RequiresHumanApprovalCall(toolName) ==
    /\ PolicyQuiet
    /\ authz' = [NoPolicyCall EXCEPT
                   !.op = "requiresHumanApproval", !.toolName = toolName,
                   !.granted = requiresHumanApproval(toolName, ctx)]
    /\ UNCHANGED <<now, sessions, userSessions, nextId, cleanupInterval,
                   sweepCount, pc, local, outcome, config, jwt, ctx,
                   rbacRoles, logVars>>

\* validateToolAccess logs to the console and keeps no record of the call
ValidateToolAccessCall(toolName, toolArgs) ==
    /\ PolicyQuiet
    /\ authz' = [NoPolicyCall EXCEPT
                   !.op = "validateToolAccess", !.toolName = toolName,
                   !.toolArgs = toolArgs,
                   !.code = validateToolAccess(rbacRoles, ctx,
                                               toolName, toolArgs)]
    /\ UNCHANGED <<now, sessions, userSessions, nextId, cleanupInterval,
                   sweepCount, pc, local, outcome, config, jwt, ctx,
                   rbacRoles, logVars>>

CreateAnonymousContextCall ==
    /\ PolicyQuiet
    /\ ctx' = createAnonymousContext
    /\ authz' = [NoPolicyCall EXCEPT !.op = "createAnonymousContext"]
    /\ UNCHANGED <<now, sessions, userSessions, nextId, cleanupInterval,
                   sweepCount, pc, local, outcome, config, jwt,
                   rbacRoles, logVars>>

\* SessionManager.getUserSessions run without interruption over the ids of
\* the user's Set, in insertion order
RECURSIVE getUserSessions(_, _, _, _, _)
getUserSessions(S, U, ids, t, found) ==
    IF ids = <<>> THEN [s |-> S, u |-> U, found |-> found]
    ELSE LET v == validateSession(S, U, Head(ids), t)
         IN  getUserSessions(v.s, v.u, Tail(ids), t,
                             IF v.ret # 0 THEN Append(found, Head(ids))
                             ELSE found)

\* authenticateToken run to its end with no other handler in between:
\* validateToken, extractRoles / extractPermissions, createOrValidateSession
\* (createSession, or the catch block), the context or the error
AuthenticateTokenAlone(tok, grants) ==
    LET r == validateToken(tok, config, NowSec(now))
        userId == r.payload.sub
        done(code) == [NoPolicyCall EXCEPT !.op = "authenticate",
                                           !.code = code]
        context(sid) == AuthContext(userId, sid, extractRoles(grants),
                                    extractPermissions(grants), TRUE, userId)
    IN  /\ PolicyQuiet
        /\ IF r.code # "OK"
             THEN /\ authz' = done(Rethrown(r.code))
                  /\ UNCHANGED <<sessions, userSessions, nextId, ctx>>
           ELSE IF ~OverLimit(userSessions, userId)
             THEN /\ nextId <= MaxIds
                  /\ LET ins == InsertSession(sessions, userSessions, nextId,
                                              userId, now)
                     IN  /\ sessions' = ins.s
                         /\ userSessions' = ins.u
                  /\ nextId' = nextId + 1
                  /\ ctx' = context(nextId)
                  /\ authz' = done("OK")
           ELSE LET g == getUserSessions(sessions, userSessions,
                                         userSessions[userId].ids, now, <<>>)
                IN  /\ sessions' = g.s
                    /\ userSessions' = g.u
                    /\ nextId' = nextId
                    /\ IF Len(g.found) > 0
                         THEN /\ ctx' = context(ReusedSession(g.found))
                              /\ authz' = done("OK")
                         ELSE /\ ctx' = ctx
                              /\ authz' = done(Rethrown(Limit))
        /\ UNCHANGED <<now, cleanupInterval, sweepCount, pc, local, outcome,
                       config, jwt, rbacRoles, logVars>>

\* the caller receives the result of the call that just ended
PolicyReturn ==
    /\ ~PolicyQuiet
    /\ authz' = NoPolicyCall
    /\ UNCHANGED <<now, sessions, userSessions, nextId, cleanupInterval,
                   sweepCount, pc, local, outcome, config, jwt, ctx,
                   rbacRoles, logVars>>

InitAuthz ==
    /\ now = 0
    /\ sessions = <<>>
    /\ userSessions = <<>>
    /\ nextId = 1
    /\ cleanupInterval = Armed(CleanupPeriod)
    /\ sweepCount = 0
    /\ pc = [p \in Procs |-> "idle"]
    /\ local = [p \in Procs |-> Blank]
    /\ outcome = Blank
    /\ config \in [allowedAudiences : {{"svc"}}, allowedIssuers : {{"issuer"}},
                   requireHumanApproval : ApprovalLists]
    /\ jwt = NoCall
    /\ ctx \in Contexts
    /\ authz = NoPolicyCall
    /\ rbacRoles = initializeSystemRoles
    /\ AuditLoggerDefault

NextAuthz ==
    \/ \E action \in PolicyActions, resource \in PolicyResources,
          conditions \in PolicyConditions :
            HasPermissionCall(action, resource, conditions)
    \/ \E toolName \in ToolNames : RequiresHumanApprovalCall(toolName)
    \/ \E toolName \in ToolNames : \E toolArgs \in ToolArgsOf(toolName) :
            ValidateToolAccessCall(toolName, toolArgs)
    \/ CreateAnonymousContextCall
    \/ \E tok \in AuthzTokens, grants \in GrantsOfTokens :
            AuthenticateTokenAlone(tok, grants)
    \/ PolicyReturn

SpecAuthz == InitAuthz /\ [][NextAuthz]_vars

\* ------------------------------------------- specification of the audit log
\* One AuditLogger built with a capacity and a flag drawn at the start; the
\* four log functions, setEnabled, clearLog and exportLog, each run to its
\* end (none of them awaits).
LogOps == {"logAuthEvent", "logAuthzEvent", "logToolEvent", "logSessionEvent"}

AuditUser == AuthContext("u1", 1, <<"authenticated">>, <<>>, TRUE, "u1")

\* detail maps: none, an empty one, secrets as a string, a number and a
\* nested map under sensitive keys, and a harmless entry
AuditDetails ==
    {NoDetails, Details(<<>>),
     Details(<<Entry(<<"password">>, StringValue(<<"hunter2">>, 7))>>),
     Details(<<Entry(<<"api", "Key">>, StringValue(<<"sk-123">>, 6)),
               Entry(<<"user">>, StringValue(<<"alice">>, 5))>>),
     Details(<<Entry(<<"PASSWORD">>, NumberValue("1234"))>>),
     Details(<<Entry(<<"token">>,
                     ObjectValue(<<Entry(<<"value">>,
                                         StringValue(<<"hunter2">>, 7))>>))>>)}

\* the values handed in under sensitive keys
RawSecrets == {"hunter2", "sk-123", "1234"}

ExportFormats == {"json", "csv", "xml"}

\* `audit' holds the last call and what it returned until the caller has
\* received it; the next call is made after that
AuditQuiet == audit.op = ""

TheLogger == Logger(events, enabled, maxEvents)

\* the logger after a call, and the record of the call; a log function
\* draws an event id only when the trail is enabled
Install(L, op, details, code, exported) ==
    /\ events' = L.events
    /\ enabled' = L.enabled
    /\ maxEvents' = L.maxEvents
    /\ audit' = [op |-> op,
                 seq |-> IF op \in LogOps /\ enabled THEN audit.seq + 1
                         ELSE audit.seq,
                 code |-> code, details |-> details, exported |-> exported]
    /\ UNCHANGED <<now, sessions, userSessions, nextId, cleanupInterval,
                   sweepCount, pc, local, outcome, config, jwt, ctx, authz,
                   rbacRoles>>

AuditBudget == enabled => audit.seq < MaxAppends

LogAuthEventCall(action, outcome0, authContext, details) ==
    /\ AuditQuiet
    /\ AuditBudget
    /\ Install(logAuthEvent(TheLogger, audit.seq + 1, now, action, outcome0,
                            authContext, details),
               "logAuthEvent", details, "OK", <<>>)

LogAuthzEventCall(action, resource, outcome0, authContext, details) ==
    /\ AuditQuiet
    /\ AuditBudget
    /\ Install(logAuthzEvent(TheLogger, audit.seq + 1, now, action, resource,
                             outcome0, authContext, details),
               "logAuthzEvent", details, "OK", <<>>)

LogToolEventCall(toolName, outcome0, authContext, details) ==
    /\ AuditQuiet
    /\ AuditBudget
    /\ Install(logToolEvent(TheLogger, audit.seq + 1, now, toolName, outcome0,
                            authContext, details),
               "logToolEvent", details, "OK", <<>>)

LogSessionEventCall(action, outcome0, sessionId, userId, details) ==
    /\ AuditQuiet
    /\ AuditBudget
    /\ Install(logSessionEvent(TheLogger, audit.seq + 1, now, action,
                               outcome0, sessionId, userId, details),
               "logSessionEvent", details, "OK", <<>>)

SetEnabledCall(flag) ==
    /\ AuditQuiet
    /\ Install(setEnabled(TheLogger, flag), "setEnabled", NoDetails, "OK",
               <<>>)

ClearLogCall ==
    /\ AuditQuiet
    /\ Install(clearLog(TheLogger), "clearLog", NoDetails, "OK", <<>>)

ExportLogCall(format) ==
    /\ AuditQuiet
    /\ LET x == exportLog(events, format)
       IN  Install(TheLogger, "exportLog", NoDetails, x.code, x.text)

\* the caller receives the result of the call that just ended
AuditReturn ==
    /\ ~AuditQuiet
    /\ audit' = [NoAuditCall EXCEPT !.seq = audit.seq]
    /\ UNCHANGED <<now, sessions, userSessions, nextId, cleanupInterval,
                   sweepCount, pc, local, outcome, config, jwt, ctx, authz,
                   rbacRoles, events, enabled, maxEvents>>

InitAudit ==
    /\ now = 0
    /\ sessions = <<>>
    /\ userSessions = <<>>
    /\ nextId = 1
    /\ cleanupInterval = Armed(CleanupPeriod)
    /\ sweepCount = 0
    /\ pc = [p \in Procs |-> "idle"]
    /\ local = [p \in Procs |-> Blank]
    /\ outcome = Blank
    /\ config = [allowedAudiences |-> {"svc"}, allowedIssuers |-> {"issuer"},
                 requireHumanApproval |-> {"delete_auth_user"}]
    /\ jwt = NoCall
    /\ ctx = createAnonymousContext
    /\ authz = NoPolicyCall
    /\ rbacRoles = initializeSystemRoles
    /\ events = <<>>
    /\ enabled \in BOOLEAN
    /\ maxEvents \in 0..MaxCapacity
    /\ audit = NoAuditCall

NextAudit ==
    \/ \E authContext \in {NoContext, Context(AuditUser)},
          details \in AuditDetails :
            LogAuthEventCall("login", "failure", authContext, details)
    \/ LogAuthzEventCall("execute", "sql", "failure", Context(AuditUser),
                         NoDetails)
    \/ LogToolEventCall("execute_sql", "success", Context(AuditUser),
                        Details(<<Entry(<<"query">>,
                                        StringValue(<<"SELECT">>, 6))>>))
    \/ LogSessionEventCall("session_created", "success", 1, "u1", NoDetails)
    \/ \E flag \in BOOLEAN : SetEnabledCall(flag)
    \/ ClearLogCall
    \/ \E format \in ExportFormats : ExportLogCall(format)
    \/ AuditReturn

SpecAudit == InitAudit /\ [][NextAudit]_vars

\* ------------------------------------------ specification of the role table
\* The RBACManager handed out by getRBACManager: addRole calls with roles
\* named after system roles and after a new one, and hasPermission calls
\* that read the table.
Role(name, permissions) == [name |-> name, permissions |-> permissions]

\* RBACManager.addRole: this.roles.set(role.name, role)
addRole(R, role) == MapPut(R, role.name, role.permissions)

systemRoles == <<"anon", "authenticated", "service_role", "admin", "operator">>

AddedRoles ==
    {Role(name, permissions) :
        name \in {"anon", "admin", "operator", "auditor"},
        permissions \in {<<>>, <<Perm("*", "*")>>,
                         <<Perm("read", "credentials")>>}}

AddRoleCall(role) ==
    /\ PolicyQuiet
    /\ rbacRoles' = addRole(rbacRoles, role)
    /\ authz' = [NoPolicyCall EXCEPT !.op = "addRole", !.toolName = role.name]
    /\ UNCHANGED <<now, sessions, userSessions, nextId, cleanupInterval,
                   sweepCount, pc, local, outcome, config, jwt, ctx, logVars>>

InitRbac ==
    /\ now = 0
    /\ sessions = <<>>
    /\ userSessions = <<>>
    /\ nextId = 1
    /\ cleanupInterval = Armed(CleanupPeriod)
    /\ sweepCount = 0
    /\ pc = [p \in Procs |-> "idle"]
    /\ local = [p \in Procs |-> Blank]
    /\ outcome = Blank
    /\ config = [allowedAudiences |-> {"svc"}, allowedIssuers |-> {"issuer"},
                 requireHumanApproval |-> {"delete_auth_user"}]
    /\ jwt = NoCall
    /\ ctx \in {createAnonymousContext,
                AuthContext("u9", 9, <<"operator">>, <<>>, TRUE, "")}
    /\ authz = NoPolicyCall
    /\ rbacRoles = initializeSystemRoles
    /\ AuditLoggerDefault

NextRbac ==
    \/ \E role \in AddedRoles : AddRoleCall(role)
    \/ \E action \in {"read", "write"},
          resource \in {"public_data", "credentials"} :
            HasPermissionCall(action, resource, NoConditions)
    \/ PolicyReturn

SpecRbac == InitRbac /\ [][NextRbac]_vars

\* ================================================================== claims

\* sessions of the session map owned by userId
Held(userId) == {sid \in DOMAIN sessions : sessions[sid].userId = userId}

\* those of them that are active and unexpired now
LiveHeld(userId) ==
    {sid \in Held(userId) :
        sessions[sid].isActive /\ ~(sessions[sid].expiresAt < now)}

InIndex(U, sid) == \E u \in DOMAIN U : sid \in SeqToSet(U[u].ids)

\* C1: a createSession call (direct, or made by authenticateToken) for a
\* user who holds maxConcurrentSessions sessions or more is rejected with
\* SESSION_LIMIT_EXCEEDED and leaves the session map and the per-user index
\* as they were.
C1_CapRejectsWithoutEffect ==
    [][\A p \in Procs, u \in Users :
         (/\ Cardinality(Held(u)) >= MaxConcurrentSessions
          /\ \/ CreateSessionCall(p, u)
             \/ AuthenticateCall(p, GoodToken(u)))
         => /\ outcome'.op = "createSession"
            /\ outcome'.status = Limit
            /\ outcome'.user = u
            /\ sessions' = sessions
            /\ userSessions' = userSessions
            /\ nextId' = nextId]_vars

C1_Witness ==
    /\ outcome.op = "createSession"
    /\ outcome.status = Limit
    /\ Cardinality(Held(outcome.user)) = MaxConcurrentSessions

\* C2: in every reachable state no user has more than maxConcurrentSessions
\* sessions in the per-user index.
C2_CapNeverExceeded ==
    \A u \in DOMAIN userSessions :
        Len(userSessions[u].ids) <= MaxConcurrentSessions

\* C3: a createSession call for a user who holds fewer than
\* maxConcurrentSessions active, unexpired sessions is not rejected, and when
\* it resumes it adds exactly one session, created now, expiring one timeout
\* from now, active, and indexed under its user.
C3_CreatesBelowLiveCap ==
    /\ [][\A p \in Procs, u \in Users :
            (CreateSessionCall(p, u)
                /\ Cardinality(LiveHeld(u)) < MaxConcurrentSessions)
            => outcome'.status # Limit]_vars
    /\ [][\A p \in Procs :
            CreateSessionResume(p)
            => /\ DOMAIN sessions' = DOMAIN sessions \cup {nextId}
               /\ nextId \notin DOMAIN sessions
               /\ \A x \in DOMAIN sessions : sessions'[x] = sessions[x]
               /\ sessions'[nextId] =
                    [userId |-> local[p].user, createdAt |-> now,
                     lastAccessedAt |-> now,
                     expiresAt |-> now + SessionTimeout, isActive |-> TRUE]
               /\ local[p].user \in DOMAIN userSessions'
               /\ nextId \in SeqToSet(userSessions'[local[p].user].ids)]_vars


\* C4: validateSession(id) returns none exactly when the id is unknown, or
\* the session's expiry is before now, or the session is inactive; in the
\* last two cases the session leaves the session map and the per-user index;
\* otherwise the session is returned with lastAccessedAt = now and
\* expiresAt = now + sessionTimeout, nothing else changed.
C4_ValidateContract ==
    [][outcome'.op = "validateSession" =>
         LET sid == outcome'.sid
             known == sid \in DOMAIN sessions
             gone == known /\ (sessions[sid].expiresAt < now
                                \/ ~sessions[sid].isActive)
         IN  /\ outcome'.status = "none" <=> (~known \/ gone)
             /\ outcome'.status \in {"none", "ok"}
             /\ ~known => sessions' = sessions /\ userSessions' = userSessions
             /\ gone => sid \notin DOMAIN sessions' /\ ~InIndex(userSessions', sid)
             /\ (known /\ ~gone) =>
                  /\ sessions' = [sessions EXCEPT
                                    ![sid].lastAccessedAt = now,
                                    ![sid].expiresAt = now + SessionTimeout]
                  /\ userSessions' = userSessions]_vars

C4_Witness ==
    /\ outcome.op = "validateSession"
    /\ outcome.was = "dead"
    /\ outcome.status = "none"
    /\ outcome.sid \notin DOMAIN sessions

\* C5: a validation that comes less than sessionTimeout after the previous
\* successful use of a session (its creation, or its last validation) returns
\* the session, however long ago the session was created; a first validation
\* at createdAt + sessionTimeout + 1 returns none and leaves the session in
\* neither the session map nor the per-user index.
C5_SlidingExpiry ==
    [][outcome'.op = "validateSession" /\ outcome'.sid \in DOMAIN sessions =>
         LET sid == outcome'.sid
             session == sessions[sid]
         IN  /\ now - session.lastAccessedAt < SessionTimeout
                  => /\ outcome'.status = "ok"
                     /\ sid \in DOMAIN sessions'
                     /\ sessions'[sid].expiresAt = now + SessionTimeout
             /\ (session.lastAccessedAt = session.createdAt
                   /\ now = session.createdAt + SessionTimeout + 1)
                  => /\ outcome'.status = "none"
                     /\ sid \notin DOMAIN sessions'
                     /\ ~InIndex(userSessions', sid)]_vars

\* a session returned by a validation later than its original expiry
C5_Witness ==
    /\ outcome.op = "validateSession"
    /\ outcome.status = "ok"
    /\ outcome.sid \in DOMAIN sessions
    /\ now > sessions[outcome.sid].createdAt + SessionTimeout

\* C6: after destroySession(id) the id is in neither the session map nor the
\* per-user index; every other session is unchanged; destroySession of an id
\* that is not in the map changes nothing; an id that has left the map never
\* comes back, and validateSession of it returns none.
C6_DestroyIdempotent ==
    /\ [][outcome'.op = "destroySession" =>
            LET sid == outcome'.sid
            IN  /\ sid \notin DOMAIN sessions'
                /\ ~InIndex(userSessions', sid)
                /\ DOMAIN sessions' = (DOMAIN sessions) \ {sid}
                /\ \A x \in DOMAIN sessions' : sessions'[x] = sessions[x]
                /\ \A x \in DOMAIN sessions' :
                      InIndex(userSessions', x) <=> InIndex(userSessions, x)
                /\ sid \notin DOMAIN sessions
                     => sessions' = sessions /\ userSessions' = userSessions]_vars
    /\ [][\A sid \in Ids :
            (sid < nextId /\ sid \notin DOMAIN sessions)
            => /\ sid \notin DOMAIN sessions'
               /\ (outcome'.op = "validateSession" /\ outcome'.sid = sid)
                    => outcome'.status = "none"]_vars

\* destroySession of an id whose session had already left the map, with
\* another session present
C6_Witness ==
    /\ outcome.op = "destroySession"
    /\ outcome.was = "unknown"
    /\ outcome.sid \in 1..(nextId - 1)
    /\ sessions # <<>>

\* C7: a run of the reclamation timer removes from the session map and the
\* per-user index exactly the sessions whose expiry is before now or that are
\* inactive, and changes no other session; while the timer has not been
\* cancelled it has run once for every period that has elapsed.
C7_SweepAndPeriod ==
    /\ [][outcome'.op = "sweep" =>
            LET kept == {sid \in DOMAIN sessions :
                           ~(sessions[sid].expiresAt < now)
                           /\ sessions[sid].isActive}
            IN  /\ DOMAIN sessions' = kept
                /\ \A sid \in kept : sessions'[sid] = sessions[sid]
                /\ \A sid \in Ids :
                      InIndex(userSessions', sid)
                        <=> (sid \in kept /\ InIndex(userSessions, sid))
                /\ outcome'.n = Cardinality((DOMAIN sessions) \ kept)]_vars
    /\ [](cleanupInterval.active =>
            /\ sweepCount * CleanupPeriod <= now
            /\ now <= (sweepCount + 1) * CleanupPeriod)
    /\ [][(cleanupInterval.active /\ now' # now) =>
            now < (sweepCount + 1) * CleanupPeriod]_vars

\* the second run or a later one, removing a session and keeping another
C7_Witness ==
    /\ outcome.op = "sweep"
    /\ sweepCount >= 2
    /\ outcome.n >= 1
    /\ sessions # <<>>

\* C8: destroy() leaves the session map and the per-user index empty and
\* the timer cancelled; once the timer is cancelled it stays cancelled and
\* its callback never runs again.
C8_ShutdownStopsTimer ==
    /\ [][outcome'.op = "destroy" =>
            /\ sessions' = <<>>
            /\ userSessions' = <<>>
            /\ ~cleanupInterval'.active]_vars
    /\ [][~cleanupInterval.active =>
            /\ ~cleanupInterval'.active
            /\ sweepCount' = sweepCount
            /\ outcome'.op # "sweep"]_vars

\* the clock has passed the time the cancelled timer was due
C8_Witness ==
    /\ ~cleanupInterval.active
    /\ now > cleanupInterval.due

\* C9: an authenticateToken call with a valid token whose createSession was
\* rejected by the cap, and during which no other step was taken, returns a
\* context with the id of the user's oldest session that was live at the
\* call if there was one, and throws SESSION_LIMIT_EXCEEDED if there was
\* none; the reused session is not a new one.  The catch block is entered
\* only by calls that createSession rejected at the cap, and whenever
\* SESSION_LIMIT_EXCEEDED reaches the caller of such an undisturbed call the
\* user has no live session.
C9_FallbackReusesOldest ==
    /\ [][(outcome'.op = "authenticate" /\ outcome'.was = "capped"
              /\ outcome'.solo) =>
            /\ outcome'.expect # 0 =>
                 /\ outcome'.status = "ok"
                 /\ outcome'.sid = outcome'.expect
                 /\ outcome'.sid \in DOMAIN sessions'
                 /\ outcome'.sid < nextId
            /\ outcome'.expect = 0 =>
                 /\ outcome'.status = Limit
                 /\ LiveHeld(outcome'.user) = {}
            /\ nextId' = nextId]_vars
    /\ [][\A p \in Procs :
            (pc[p] = "idle" /\ pc'[p] = "cs_failed") =>
               /\ Cardinality(Held(local'[p].user)) >= MaxConcurrentSessions
               /\ outcome'.op = "createSession"
               /\ outcome'.status = Limit]_vars
    /\ [](\A p \in Procs :
            /\ pc[p] \in {"cs_failed", "gus"} => local[p].was = "capped"
            /\ pc[p] = "cs_await" => local[p].was = "")

\* an undisturbed call that reused the older of two live sessions
C9_Witness ==
    /\ outcome.op = "authenticate"
    /\ outcome.was = "capped"
    /\ outcome.solo
    /\ outcome.status = "ok"
    /\ outcome.sid = outcome.expect
    /\ Cardinality(LiveHeld(outcome.user)) >= 2

\* C10: for a decodable three-segment token, validateToken fails with the
\* code of the first failing check, in the order subject, audience, issuer,
\* expiry, issued-at, audience allow-list, issuer allow-list, and returns the
\* claims unchanged when no check fails.
C10_FirstFailingCheck(tok, cfg, nowSec) ==
    LET failing ==
          {i \in 1..7 :
             \/ i = 1 /\ tok.sub = ""
             \/ i = 2 /\ tok.aud = ""
             \/ i = 3 /\ tok.iss = ""
             \/ i = 4 /\ tok.exp # 0 /\ tok.exp < nowSec
             \/ i = 5 /\ tok.iat # 0 /\ tok.iat > nowSec + ClockSkew
             \/ i = 6 /\ cfg.allowedAudiences # {}
                      /\ tok.aud \notin cfg.allowedAudiences
             \/ i = 7 /\ cfg.allowedIssuers # {}
                      /\ tok.iss \notin cfg.allowedIssuers}
        codes == <<"AUTH_MISSING_SUB", "AUTH_MISSING_AUD", "AUTH_MISSING_ISS",
                   "AUTH_TOKEN_EXPIRED", "AUTH_TOKEN_NOT_YET_VALID",
                   "AUTH_INVALID_AUDIENCE", "AUTH_INVALID_ISSUER">>
    IN  IF failing = {} THEN "OK"
        ELSE codes[CHOOSE i \in failing : \A j \in failing : i <= j]

C10_SpecificCodes ==
    (jwt.code # "" /\ jwt.token.nseg = 3 /\ jwt.token.decodable) =>
        /\ jwt.code = C10_FirstFailingCheck(jwt.token, config, NowSec(now))
        /\ jwt.code = "OK" => jwt.payload = Payload(jwt.token)

\* C11: an authenticateToken call whose token fails validation (the empty
\* string, a wrong number of segments, an undecodable segment, a failing
\* claim check) ends at once with the error of validateToken, code
\* unchanged, and leaves the session map, the per-user index and the id
\* generator as they were.
C11_RejectedTokenNoEffect ==
    [][\A p \in Procs, tok \in AuthTokens :
         (AuthenticateCall(p, tok)
            /\ validateToken(tok, config, NowSec(now)).code # "OK")
         => /\ outcome'.op = "authenticate"
            /\ outcome'.status = validateToken(tok, config, NowSec(now)).code
            /\ sessions' = sessions
            /\ userSessions' = userSessions
            /\ nextId' = nextId
            /\ pc'[p] = "idle"]_vars

\* a malformed token rejected while the store holds a session
C11_Witness ==
    /\ outcome.op = "authenticate"
    /\ outcome.status = "AUTH_INVALID_FORMAT"
    /\ sessions # <<>>

\* C12: in whole seconds, with subject, audience and issuer valid: a token
\* whose exp is now - 1 is rejected, by the expiry check; one whose exp is
\* now + 1 is accepted; a token whose iat is now + 60 is accepted; one whose
\* iat is now + 61 is rejected, by the issued-at check.
C12_TimeBoundaries ==
    LET t == jwt.token
        n == NowSec(now)
        inner == validatePayload(Payload(t), config, n)
        others == /\ jwt.code # ""
                  /\ t.nseg = 3 /\ t.decodable
                  /\ t.sub = "u1" /\ t.aud = "svc" /\ t.iss = "issuer"
        expOk == t.exp \in {0, n + 1}
        iatOk == t.iat \in {0, n + ClockSkew}
    IN  others =>
          /\ (t.exp = n - 1 /\ iatOk)
                => inner = "AUTH_TOKEN_EXPIRED" /\ jwt.code # "OK"
          /\ (t.exp = n + 1 /\ iatOk) => jwt.code = "OK"
          /\ (t.iat = n + 60 /\ expOk) => jwt.code = "OK"
          /\ (t.iat = n + 61 /\ expOk)
                => inner = "AUTH_TOKEN_NOT_YET_VALID" /\ jwt.code # "OK"

\* a token accepted on both boundaries at once
C12_Witness ==
    /\ jwt.code = "OK"
    /\ jwt.token.exp = NowSec(now) + 1
    /\ jwt.token.iat = NowSec(now) + 60

\* C13: for a context that passes the gate on unauthenticated callers,
\* hasPermission is true exactly when a permission of one of its roles, or
\* one of its well-formed explicit permission strings, matches; a
\* permission matches iff its action is * or the requested one, its
\* resource is * or the requested one, and every key of its conditions is
\* among the supplied conditions with an equal value (so a permission with
\* conditions does not match a request that supplies none).
C13_Matches(permission, action, resource, conditions) ==
    /\ permission.action \in {"*", action}
    /\ permission.resource \in {"*", resource}
    /\ permission.conditions.given =>
          \A key \in DOMAIN permission.conditions.map :
              /\ conditions.given
              /\ key \in DOMAIN conditions.map
              /\ conditions.map[key] = permission.conditions.map[key]

C13_HasPermissionIffMatch ==
    (/\ authz.op = "hasPermission"
     /\ ctx.isAuthenticated \/ Includes(ctx.roles, "anon"))
    => (authz.granted <=>
          \/ \E i \in 1..Len(ctx.roles) :
                /\ ctx.roles[i] \in DOMAIN initializeSystemRoles
                /\ \E j \in 1..Len(initializeSystemRoles[ctx.roles[i]]) :
                      C13_Matches(initializeSystemRoles[ctx.roles[i]][j],
                                  authz.action, authz.resource,
                                  authz.conditions)
          \/ \E i \in 1..Len(ctx.permissions) :
                /\ Len(ctx.permissions[i]) = 2
                /\ C13_Matches(Perm(ctx.permissions[i][1],
                                     ctx.permissions[i][2]),
                                authz.action, authz.resource,
                                authz.conditions))

\* C14: hasPermission denies every request of a context that is not
\* authenticated and does not have the role anon, whatever its other
\* roles and explicit permission strings.
C14_UnauthenticatedDenied ==
    (/\ authz.op = "hasPermission"
     /\ ~ctx.isAuthenticated
     /\ ~Includes(ctx.roles, "anon"))
    => ~authz.granted

\* an unauthenticated context with role admin and the string *:* is denied
C14_Witness ==
    /\ authz.op = "hasPermission"
    /\ ~ctx.isAuthenticated
    /\ ctx.roles = <<"admin">>
    /\ ctx.permissions = << <<"*", "*">> >>
    /\ ~authz.granted

\* C15: for an authenticated context whose roles include admin,
\* hasPermission is true for every action, resource and conditions.
C15_AdminWildcard ==
    (/\ authz.op = "hasPermission"
     /\ ctx.isAuthenticated
     /\ Includes(ctx.roles, "admin"))
    => authz.granted

\* admin granted an action and a resource no role names, under conditions
C15_Witness ==
    /\ authz.op = "hasPermission"
    /\ ctx.isAuthenticated
    /\ ctx.roles = <<"admin">>
    /\ ctx.permissions = <<>>
    /\ authz.action = "delete"
    /\ authz.resource = "nothing"
    /\ authz.conditions = Conditions([k \in {"readOnly"} |-> FALSE])
    /\ authz.granted

\* C16: a context whose only role is anon and which has no explicit
\* permission strings is granted (read, public_data) and nothing else.
C16_AnonReadsPublicOnly ==
    (/\ authz.op = "hasPermission"
     /\ ctx.roles = <<"anon">>
     /\ ctx.permissions = <<>>)
    => (authz.granted
          <=> (authz.action = "read" /\ authz.resource = "public_data"))

\* the context of createAnonymousContext granted (read, public_data)
C16_Witness ==
    /\ authz.op = "hasPermission"
    /\ ctx = createAnonymousContext
    /\ authz.action = "read"
    /\ authz.resource = "public_data"
    /\ authz.granted

\* C17: requiresHumanApproval(operationName, ctx) is true exactly when
\* operationName is in the requireHumanApproval list of the AuthConfig and
\* the roles of ctx do not include admin.
C17_ApprovalFollowsConfig ==
    authz.op = "requiresHumanApproval"
    => (authz.granted
          <=> /\ authz.toolName \in config.requireHumanApproval
              /\ ~Includes(ctx.roles, "admin"))

\* C18: validateToolAccess of execute_sql with a query: from a context
\* whose only role is authenticated, a statement that starts with SELECT and
\* matches no destructive pattern is admitted and one that matches a
\* destructive pattern is denied with AUTH_DANGEROUS_SQL; from a context
\* with role admin both are admitted.
C18_SqlGuard ==
    (/\ authz.op = "validateToolAccess"
     /\ authz.toolName = "execute_sql"
     /\ authz.toolArgs.given
     /\ authz.toolArgs.query # <<>>
     /\ ctx.isAuthenticated
     /\ ctx.permissions = <<>>)
    => LET query == authz.toolArgs.query
       IN  /\ ctx.roles = <<"authenticated">> =>
                /\ (StartsWithSelect(query) /\ ~isDangerous(query))
                      => authz.code = "OK"
                /\ isDangerous(query) => authz.code = "AUTH_DANGEROUS_SQL"
           /\ ctx.roles = <<"admin">> =>
                ((StartsWithSelect(query) \/ isDangerous(query))
                      => authz.code = "OK")

\* C19: authenticateToken with the token {sub u1, aud svc, iss issuer,
\* roles [operator], exp in the future} returns a context whose roles are
\* exactly [operator]; with that context validateToolAccess admits
\* apply_migration and rejects delete_auth_user.
C19_OperatorEndToEnd ==
    /\ [][AuthenticateTokenAlone(GoodToken("u1"),
                                 Grants("", Array(<<"operator">>), Absent))
            => /\ authz'.code = "OK"
               /\ ctx'.roles = <<"operator">>
               /\ ctx'.tokenSubject = "u1"]_vars
    /\ []((/\ authz.op = "validateToolAccess"
           /\ ctx.tokenSubject = "u1"
           /\ ctx.roles = <<"operator">>
           /\ ctx.permissions = <<>>)
          => /\ authz.toolName = "apply_migration" => authz.code = "OK"
             /\ authz.toolName = "delete_auth_user" => authz.code # "OK")

\* C20: every call of authenticateToken and every call of
\* validateToolAccess, whether it returns or throws, appends one audit
\* event before its result reaches the caller.
C20_OutcomesAudited ==
    [][(\/ \E tok \in AuthzTokens, grants \in GrantsOfTokens :
             AuthenticateTokenAlone(tok, grants)
        \/ \E toolName \in ToolNames :
             \E toolArgs \in ToolArgsOf(toolName) :
                ValidateToolAccessCall(toolName, toolArgs))
       => Len(events') = Len(events) + 1]_vars

\* --------------------------------------------------------------------- C21
\* the last n elements of a sequence, all of them if it has fewer
LastN(seq, n) ==
    IF Len(seq) <= n THEN seq ELSE SubSeq(seq, Len(seq) - n + 1, Len(seq))

\* C21: audit rotation.  For every capacity N, N = 0 and N = 1 included,
\* an append made by a log function leaves at most N events in the log:
\* the N most recently appended ones (all of them while fewer than N have
\* been appended), in arrival order, the event just built being the last.
C21_Rotation ==
    [][(audit'.op \in LogOps /\ enabled)
         => /\ Len(events') <= maxEvents
            /\ \E event \in {events'[i] : i \in 1..Len(events')}
                        \cup {[eventId |-> <<0, 0>>]} :
                 /\ events' = LastN(Append(events, event), maxEvents)
                 /\ Len(events') > 0 => event.eventId[2] = audit'.seq]_vars

\* --------------------------------------------------------------------- C22
\* a string of the form [REDACTED:<n>chars]
IsRedactionMarker(value) ==
    /\ value.typeof = "string"
    /\ Len(value.text) = 3
    /\ value.text[1] = "[REDACTED:"
    /\ value.text[3] = "chars]"

\* C22: audit sanitization.  In every stored event, every detail entry
\* whose key contains password, secret, key, token or credential (in any
\* case) holds the redaction marker, whatever the shape of the value handed
\* in; for a string the marker carries its length; no value handed in
\* under a sensitive key appears in a JSON or CSV export.
C22_SensitiveRedacted ==
    /\ \A i \in 1..Len(events) :
         \A j \in 1..Len(events[i].details.entries) :
           isSensitive(events[i].details.entries[j].key)
             => IsRedactionMarker(events[i].details.entries[j].value)
    /\ (audit.op \in LogOps /\ Len(events) > 0
          /\ events[Len(events)].eventId[2] = audit.seq)
         => \A j \in 1..Len(audit.details.entries) :
              (isSensitive(audit.details.entries[j].key)
                 /\ audit.details.entries[j].value.typeof = "string")
                => events[Len(events)].details.entries[j].value
                     = RedactionMarker(audit.details.entries[j].value.length)
    /\ audit.op = "exportLog"
         => \A k \in 1..Len(audit.exported) :
              audit.exported[k] \notin RawSecrets

\* --------------------------------------------------------------------- C23
\* C23: disabling the audit trail keeps the recorded events.  A log call
\* made while the trail is disabled leaves the log as it was; setEnabled
\* leaves the log as it was; a log call made while it is enabled puts its
\* event last, after events that were recorded before and in their order.
C23_DisableKeepsEvents ==
    [][/\ (audit'.op \in LogOps /\ ~enabled) => events' = events
       /\ audit'.op = "setEnabled" => events' = events
       /\ (audit'.op \in LogOps /\ enabled /\ Len(events') > 0)
            => /\ events'[Len(events')].eventId[2] = audit'.seq
               /\ SubSeq(events', 1, Len(events') - 1)
                    = LastN(events, Len(events') - 1)]_vars

\* a log call returned early on a disabled trail that holds events
C23_Witness ==
    /\ ~enabled
    /\ audit.op \in LogOps
    /\ Len(events) > 0

\* --------------------------------------------------------------------- C24
\* C24: system roles are immutable.  After construction and after any
\* sequence of addRole calls, each of anon, authenticated, service_role,
\* admin and operator is in the role table with the permissions it was
\* seeded with.
C24_SystemRolesImmutable ==
    \A i \in 1..Len(systemRoles) :
        /\ systemRoles[i] \in DOMAIN rbacRoles
        /\ rbacRoles[systemRoles[i]] = initializeSystemRoles[systemRoles[i]]

\* --------------------------------------------------------------------- C25
\* C25: index consistency.  In every reachable state of the session store
\* a session id is in the per-user index set of user u exactly when the
\* session map holds a session with that id owned by u, and the per-user
\* index holds no empty set.
C25_IndexConsistent ==
    /\ \A u \in DOMAIN userSessions : Len(userSessions[u].ids) > 0
    /\ \A u \in Users \cup DOMAIN userSessions : \A sid \in Ids :
         (u \in DOMAIN userSessions /\ sid \in SeqToSet(userSessions[u].ids))
           <=> (sid \in DOMAIN sessions /\ sessions[sid].userId = u)

\* destroyUserSessions has just emptied the index of u1 under a suspended
\* getUserSessions loop, while u2 still holds a session
C25_Witness ==
    /\ outcome.op = "destroyUserSessions"
    /\ outcome.user = "u1"
    /\ \E p \in Procs : pc[p] = "gus" /\ local[p].user = "u1"
    /\ "u1" \notin DOMAIN userSessions
    /\ \E sid \in DOMAIN sessions : sessions[sid].userId = "u2"

\* --------------------------------------------------------------------- C26
\* C26: an expired session stays dead.  A session in the map whose expiry
\* the clock has passed is, after any step, either gone or still expired,
\* so no later validateSession returns it; extendSession of such a session
\* returns false and leaves the store as it was.
C26_ExpiredStaysDead ==
    [][/\ \A sid \in DOMAIN sessions :
            sessions[sid].expiresAt < now
              => (sid \notin DOMAIN sessions'
                    \/ sessions'[sid].expiresAt < now')
       /\ (outcome'.op = "extendSession" /\ outcome'.was = "dead")
            => (outcome'.status = "none" /\ sessions' = sessions)]_vars

C28_AnonymousDeniedEverywhere ==
    [][/\ (authz'.op = "validateToolAccess" /\ ctx' = createAnonymousContext)
            => authz'.code = "AUTH_ACCESS_DENIED"
       /\ authz'.op = "createAnonymousContext"
            => /\ ctx' = createAnonymousContext
               /\ UNCHANGED <<sessions, userSessions, nextId,
                              cleanupInterval>>]_vars

\* the anonymous context, created while a session exists, is denied a name
\* that is absent from the table and equal to the one resource anon reads
C28_Witness ==
    /\ authz.op = "validateToolAccess"
    /\ ctx = createAnonymousContext
    /\ authz.toolName = "public_data"
    /\ authz.code = "AUTH_ACCESS_DENIED"
    /\ DOMAIN sessions # {}

\* --------------------------------------------------------------------- C29
\* C29: every token accepted by validateToken carries an expiry claim that
\* is present and not earlier than the current time; a token without exp
\* (or with exp = 0) is not accepted.
C29_AcceptedHasExpiry ==
    jwt.code = "OK"
    => /\ jwt.payload.exp # 0
       /\ jwt.payload.exp >= NowSec(now)

\* --------------------------------------------------------------------- C30
\* C30: under any interleaving of authenticate calls with destroySession,
\* destroyUserSessions and sweeps, the sessionId of a context returned by
\* authenticate names a session that, at the moment authenticate returns,
\* is in the session store, owned by the token's subject and unexpired.
C30_ReturnedSessionLive ==
    (outcome.op = "authenticate" /\ outcome.status = "ok")
    => /\ outcome.sid \in DOMAIN sessions
       /\ sessions[outcome.sid].userId = outcome.user
       /\ ~IsDead(sessions[outcome.sid], now)


====
